---------------------------- MODULE Spec2Model ----------------------------
(***************************************************************************)
(* Event Task Matrix (ETM) driver, esp-hal/src/etm.rs.                     *)
(*                                                                         *)
(* The model covers the channel life cycle: Etm::new hands out one         *)
(* EtmChannel<C> value per index, EtmChannel::setup consumes it, programs  *)
(* the channel's id registers, enables the channel through the bank's set  *)
(* strobe and returns an EtmConfiguredChannel guard, and dropping the      *)
(* guard disables the channel through the clear strobe.                    *)
(*                                                                         *)
(* Ownership and borrowing are part of the state: a value that was moved   *)
(* is gone, and an Event or Task that a live guard borrows cannot go away. *)
(* A 32-bit strobe or bitmap word is the set of the positions of its one   *)
(* bits.  The hardware starts from its reset state (all channels disabled, *)
(* id fields zero).  Leaking a guard (core::mem::forget) is not an         *)
(* operation of this module and is not modelled.                           *)
(***************************************************************************)
EXTENDS Integers, Sequences, FiniteSets, Bags

(* ------------------------------ bounds -------------------------------- *)

\* The caller makes at most MaxSetups calls of setup in one run.
MaxSetups == 3

(* ------------------------- program constants -------------------------- *)

\* Number of channels create_etm! generates (indices 0..49).
NumChannels == 50

\* First index of the high bank: setup and disable_channel test C < 32.
BankSize == 32

\* Width of the value id() returns (u8) and that bits() writes.
IdBits == 8

Indices == 0 .. (NumChannels - 1)

\* Bit positions of a 32-bit register word.
WordBits == 0 .. 31

\* The argument list of the create_etm! invocation.
ChannelNumsWithout32 ==
    << 0, 1, 2, 3, 4, 5, 6, 7, 8, 9, 10, 11, 12, 13, 14, 15, 16, 17, 18, 19,
       20, 21, 22, 23, 24, 25, 26, 27, 28, 29, 30, 31, 33, 34, 35, 36, 37,
       38, 39, 40, 41, 42, 43, 44, 45, 46, 47, 48, 49 >>

ChannelNums ==
    << 0, 1, 2, 3, 4, 5, 6, 7, 8, 9, 10, 11, 12, 13, 14, 15, 16, 17, 18, 19,
       20, 21, 22, 23, 24, 25, 26, 27, 28, 29, 30, 31, 32, 33, 34, 35, 36,
       37, 38, 39, 40, 41, 42, 43, 44, 45, 46, 47, 48, 49 >>

(* ------------------------------ inputs -------------------------------- *)

\* The Event and Task providers of the caller, and what their id() returns.
Events == {"button_event", "timer_event"}

Tasks == {"led_task", "adc_task"}

EventId(event) == IF event = "button_event" THEN 5 ELSE 200

TaskId(task) == IF task = "led_task" THEN 9 ELSE 255

\* The channels the caller configures: both ends of both banks.
SetupChannels == {0, 31, 32, 49}

\* The execution contexts that call into the driver: mainline code and an
\* interrupt handler.
Contexts == {"main", "irq"}

\* A context that is in no call of the driver.
Idle ==
    [op |-> "idle", pc |-> 0, ch |-> 0, event |-> "", task |-> "", r |-> 0,
     done |-> {}]

VARIABLES
    peripheral,    \* number of ETM peripheral handles the caller still owns
    channel,       \* channel[C]: number of EtmChannel<C> values the caller owns
    guards,        \* bag of live EtmConfiguredChannel values
    evt_id,        \* evt_id[C]: channel C's event-id register
    task_id,       \* task_id[C]: channel C's task-id register
    ch_ena_ad0,    \* enable bitmap of the low bank (channels 0..31)
    ch_ena_ad1,    \* enable bitmap of the high bank (channels 32..49)
    etm_refcount,  \* number of ETM usage tokens (GenericPeripheralGuard) held
    etm_clock,     \* whether the ETM peripheral is clocked
    events,        \* the Events that still exist
    tasks,         \* the Tasks that still exist
    nsetups,       \* number of setup calls made
    configured_times, \* configured_times[C]: number of setup calls on index C
    clr_count,     \* clr_count[C]: number of clear-strobe writes made for index C
    binding,       \* binding[C]: the event and task of the latest setup of index C
    ctx,           \* ctx[c]: the call that execution context c is in the middle of
    interleaved,   \* whether a step ran while the other context was inside a call
    last           \* the operation that produced this state

vars == << peripheral, channel, guards, evt_id, task_id, ch_ena_ad0,
           ch_ena_ad1, etm_refcount, etm_clock, events, tasks, nsetups,
           configured_times, clr_count, binding, ctx, interleaved, last >>

\* The state of the statement-by-statement execution.
stepvars == << ctx, interleaved >>

(* --------------------------- register access -------------------------- *)

\* modify(|_, w| w.<field>().bits(id)): read the register, replace the low
\* IdBits bits by id, keep the rest, write it back.
ModifyField(old, id) == (old - (old % (2 ^ IdBits))) + (id % (2 ^ IdBits))

\* Write-1-to-set strobe: every one bit of the word sets that enable bit,
\* a zero bit has no effect.
StrobeSet(bitmap, word) == bitmap \cup (word \cap WordBits)

\* Write-1-to-clear strobe: every one bit of the word clears that enable
\* bit, a zero bit has no effect.
StrobeClr(bitmap, word) == bitmap \ word

\* The enable bit of channel i as the hardware holds it.
Enabled(i) ==
    IF i <= 31 THEN i \in ch_ena_ad0 ELSE (i - 32) \in ch_ena_ad1

(* --------------------------- usage token ------------------------------ *)

\* GenericPeripheralGuard::new(): one more holder.
GuardAcquire(count) == count + 1

\* Drop of a GenericPeripheralGuard: one holder less.
GuardRelease(count) == count - 1

\* The peripheral is clocked while there is at least one holder.
ClockFor(count) == count > 0

(* ------------------------------- Etm::new ----------------------------- *)

\* Number of fields  channel<C>  the macro generates for index C.
FieldsFor(C) == Cardinality({k \in DOMAIN ChannelNums : ChannelNums[k] = C})

\* Moving the peripheral handle into Etm::new: the caller no longer has it.
MovePeripheral(n) == n - 1

EtmNew ==
    /\ peripheral >= 1
    /\ peripheral' = MovePeripheral(peripheral)
    /\ channel' = [C \in Indices |-> channel[C] + FieldsFor(C)]
    /\ last' = [op |-> "new", ch |-> 0, event |-> "", task |-> ""]
    /\ UNCHANGED << guards, evt_id, task_id, ch_ena_ad0, ch_ena_ad1,
                    etm_refcount, etm_clock, events, tasks, nsetups,
                    configured_times, clr_count, binding, stepvars >>

(* --------------------------- EtmChannel::setup ------------------------ *)

\* self is taken by value: the EtmChannel<C> is consumed.
ConsumeChannelKept(chans, C) == chans

ConsumeChannel(chans, C) == [chans EXCEPT ![C] = @ - 1]

\* etm.ch(C).evt_id().modify(.. bits(event.id()))
WriteEvtIdSwapped(regs, C, event, task) ==
    [regs EXCEPT ![C] = ModifyField(@, TaskId(task))]

WriteEvtId(regs, C, event, task) ==
    [regs EXCEPT ![C] = ModifyField(@, EventId(event))]

\* etm.ch(C).task_id().modify(.. bits(task.id()))
WriteTaskIdBitOffset(regs, C, event, task) ==
    [regs EXCEPT ![C % 32] = ModifyField(@, TaskId(task))]

WriteTaskId(regs, C, event, task) ==
    [regs EXCEPT ![C] = ModifyField(@, TaskId(task))]

\* The strobe write of setup: the register and the word written to it.
SetupStrobeNoOffset(C) ==
    IF C < BankSize
    THEN [bank |-> 0, word |-> {C}]
    ELSE [bank |-> 1, word |-> {C}]

SetupStrobe(C) ==
    IF C < BankSize
    THEN [bank |-> 0, word |-> {C}]
    ELSE [bank |-> 1, word |-> {C - 32}]

\* The token setup acquires (let guard = GenericPeripheralGuard::new()).
SetupTokenNone(count) == count

SetupToken(count) == GuardAcquire(count)

\* The guard setup returns: it borrows event and task for its lifetime.
EtmConfiguredChannel(C, event, task) ==
    [ch |-> C, _event |-> event, _task |-> task]

setup(C, event, task) ==
    /\ channel[C] >= 1
    /\ event \in events
    /\ task \in tasks
    /\ nsetups < MaxSetups
    /\ nsetups' = nsetups + 1
    /\ configured_times' = [configured_times EXCEPT ![C] = @ + 1]
    /\ channel' = ConsumeChannel(channel, C)
    /\ etm_refcount' = SetupToken(etm_refcount)
    /\ etm_clock' = ClockFor(etm_refcount')
    /\ evt_id' = WriteEvtId(evt_id, C, event, task)
    /\ task_id' = WriteTaskId(task_id, C, event, task)
    /\ LET s == SetupStrobe(C) IN
         /\ ch_ena_ad0' = IF s.bank = 0 THEN StrobeSet(ch_ena_ad0, s.word)
                                         ELSE ch_ena_ad0
         /\ ch_ena_ad1' = IF s.bank = 1 THEN StrobeSet(ch_ena_ad1, s.word)
                                         ELSE ch_ena_ad1
    /\ guards' = guards (+) SetToBag({EtmConfiguredChannel(C, event, task)})
    /\ binding' = [binding EXCEPT ![C] = << event, task >>]
    /\ last' = [op |-> "setup", ch |-> C, event |-> event, task |-> task]
    /\ UNCHANGED << peripheral, events, tasks, clr_count, stepvars >>

(* ------------------- disable_channel and the guard's drop ------------- *)

\* The strobe write of disable_channel.
disable_channelLowOnly(ch) == [bank |-> 0, word |-> {ch}]

disable_channelAllBits(ch) ==
    IF ch < BankSize
    THEN [bank |-> 0, word |-> WordBits]
    ELSE [bank |-> 1, word |-> WordBits]

disable_channel(ch) ==
    IF ch < BankSize
    THEN [bank |-> 0, word |-> {ch}]
    ELSE [bank |-> 1, word |-> {ch - 32}]

\* What the caller holds of index C once the guard is gone: nothing.
ReleaseChannelReturned(chans, C) == [chans EXCEPT ![C] = @ + 1]

ReleaseChannel(chans, C) == chans

\* What teardown does to the id registers: disable_channel writes none.
DropIdRegsZeroed(regs, C) == [regs EXCEPT ![C] = 0]

DropIdRegs(regs, C) == regs

\* Drop::drop runs disable_channel(C); then the guard's fields are dropped,
\* which releases the usage token and ends the borrows.
drop(g) ==
    /\ BagIn(g, guards)
    /\ LET s == disable_channel(g.ch) IN
         /\ ch_ena_ad0' = IF s.bank = 0 THEN StrobeClr(ch_ena_ad0, s.word)
                                         ELSE ch_ena_ad0
         /\ ch_ena_ad1' = IF s.bank = 1 THEN StrobeClr(ch_ena_ad1, s.word)
                                         ELSE ch_ena_ad1
    /\ etm_refcount' = GuardRelease(etm_refcount)
    /\ etm_clock' = ClockFor(etm_refcount')
    /\ guards' = guards (-) SetToBag({g})
    /\ channel' = ReleaseChannel(channel, g.ch)
    /\ last' = [op |-> "drop", ch |-> g.ch, event |-> g._event,
                task |-> g._task]
    /\ evt_id' = DropIdRegs(evt_id, g.ch)
    /\ task_id' = DropIdRegs(task_id, g.ch)
    /\ clr_count' = [clr_count EXCEPT ![g.ch] = @ + 1]
    /\ UNCHANGED << peripheral, events, tasks, nsetups, configured_times,
                    binding, stepvars >>

(* ----------------- the providers' scopes (borrow rules) --------------- *)

\* A live guard holds &'a E / &'a T: the referent cannot be moved or dropped.
EventBorrowedNever(event) == FALSE

EventBorrowed(event) == \E g \in BagToSet(guards) : g._event = event

TaskBorrowed(task) == \E g \in BagToSet(guards) : g._task = task

DropEvent(event) ==
    /\ event \in events
    /\ ~EventBorrowed(event)
    /\ events' = events \ {event}
    /\ last' = [op |-> "drop_event", ch |-> 0, event |-> event, task |-> ""]
    /\ UNCHANGED << peripheral, channel, guards, evt_id, task_id, ch_ena_ad0,
                    ch_ena_ad1, etm_refcount, etm_clock, tasks, nsetups,
                    configured_times, clr_count, binding, stepvars >>

DropTask(task) ==
    /\ task \in tasks
    /\ ~TaskBorrowed(task)
    /\ tasks' = tasks \ {task}
    /\ last' = [op |-> "drop_task", ch |-> 0, event |-> "", task |-> task]
    /\ UNCHANGED << peripheral, channel, guards, evt_id, task_id, ch_ena_ad0,
                    ch_ena_ad1, etm_refcount, etm_clock, events, nsetups,
                    configured_times, clr_count, binding, stepvars >>

(* --------------------------- specification ---------------------------- *)

Init ==
    /\ peripheral = 1
    /\ channel = [C \in Indices |-> 0]
    /\ guards = EmptyBag
    /\ evt_id = [C \in Indices |-> 0]
    /\ task_id = [C \in Indices |-> 0]
    /\ ch_ena_ad0 = {}
    /\ ch_ena_ad1 = {}
    /\ etm_refcount = 0
    /\ etm_clock = FALSE
    /\ events = Events
    /\ tasks = Tasks
    /\ nsetups = 0
    /\ configured_times = [C \in Indices |-> 0]
    /\ clr_count = [C \in Indices |-> 0]
    /\ binding = [C \in Indices |-> << >>]
    /\ ctx = [c \in Contexts |-> Idle]
    /\ interleaved = FALSE
    /\ last = [op |-> "init", ch |-> 0, event |-> "", task |-> ""]

Setup == \E C \in SetupChannels, event \in Events, task \in Tasks :
            setup(C, event, task)

Drop == \E g \in BagToSet(guards) : drop(g)

EventGone == \E event \in Events : DropEvent(event)

TaskGone == \E task \in Tasks : DropTask(task)

Next ==
    \/ EtmNew
    \/ Setup
    \/ Drop
    \/ EventGone
    \/ TaskGone

Spec == Init /\ [][Next]_vars

(* ------------------ statement-by-statement execution ------------------ *)

\* The caller makes at most MaxStepSetups calls of setup in a run that is
\* followed statement by statement.
MaxStepSetups == 2

\* The effects of setup in program order: the usage token, the event-id
\* field, the task-id field, the set strobe.
SetupOrderTokenLast == << "evt_id", "task_id", "ch_ena_set", "guard" >>

SetupOrderEnableFirst == << "guard", "ch_ena_set", "evt_id", "task_id" >>

SetupOrder == << "guard", "evt_id", "task_id", "ch_ena_set" >>

\* The effects of the guard's teardown in program order: Drop::drop calls
\* disable_channel, then the fields are dropped, _guard among them.
DropOrderNoDisable == << "_guard" >>

DropOrder == << "disable_channel", "_guard" >>

\* modify() reads the channel's register ...
ReadReg(regs, C) == regs[C]

\* ... and writes it back with the id field replaced.
WriteBackBitOffset(regs, C, r, id) ==
    [regs EXCEPT ![C % 32] = ModifyField(r, id)]

WriteBack(regs, C, r, id) == [regs EXCEPT ![C] = ModifyField(r, id)]

\* Context c is inside a call and about to run statement stmt of it.
At(c, op, order, stmt) ==
    /\ ctx[c].op = op
    /\ ctx[c].pc \in DOMAIN order
    /\ order[ctx[c].pc] = stmt

\* A step of context c overlaps a call of another context.
Overlap(c) == interleaved \/ \E d \in Contexts \ {c} : ctx[d].op # "idle"

\* What every step of context c at statement name leaves behind.
Stepped(c, name, finished) ==
    /\ ctx' = [ctx EXCEPT ![c].done = @ \cup {name},
                          ![c].pc = IF finished THEN @ + 1 ELSE @]
    /\ interleaved' = Overlap(c)
    /\ last' = [op |-> name, ch |-> ctx[c].ch, event |-> ctx[c].event,
                task |-> ctx[c].task]

\* The call of setup: self, event and task are moved or borrowed in.
SetupCall(c, C, event, task) ==
    /\ ctx[c].op = "idle"
    /\ channel[C] >= 1
    /\ event \in events
    /\ task \in tasks
    /\ nsetups < MaxStepSetups
    /\ nsetups' = nsetups + 1
    /\ configured_times' = [configured_times EXCEPT ![C] = @ + 1]
    /\ binding' = [binding EXCEPT ![C] = << event, task >>]
    /\ channel' = ConsumeChannel(channel, C)
    /\ ctx' = [ctx EXCEPT ![c] = [op |-> "setup", pc |-> 1, ch |-> C,
                                  event |-> event, task |-> task, r |-> 0,
                                  done |-> {}]]
    /\ last' = [op |-> "call_setup", ch |-> C, event |-> event, task |-> task]
    /\ UNCHANGED << peripheral, guards, evt_id, task_id, ch_ena_ad0,
                    ch_ena_ad1, etm_refcount, etm_clock, events, tasks,
                    clr_count, interleaved >>

\* let guard = GenericPeripheralGuard::new();
SetupGuard(c) ==
    /\ At(c, "setup", SetupOrder, "guard")
    /\ etm_refcount' = SetupToken(etm_refcount)
    /\ etm_clock' = ClockFor(etm_refcount')
    /\ Stepped(c, "guard", TRUE)
    /\ UNCHANGED << peripheral, channel, guards, evt_id, task_id, ch_ena_ad0,
                    ch_ena_ad1, events, tasks, nsetups, configured_times,
                    clr_count, binding >>

\* etm.ch(C).evt_id().modify(..): the read
SetupEvtRead(c) ==
    /\ At(c, "setup", SetupOrder, "evt_id")
    /\ "evt_read" \notin ctx[c].done
    /\ ctx' = [ctx EXCEPT ![c].r = ReadReg(evt_id, ctx[c].ch),
                          ![c].done = @ \cup {"evt_read"}]
    /\ interleaved' = Overlap(c)
    /\ last' = [op |-> "evt_read", ch |-> ctx[c].ch, event |-> ctx[c].event,
                task |-> ctx[c].task]
    /\ UNCHANGED << peripheral, channel, guards, evt_id, task_id, ch_ena_ad0,
                    ch_ena_ad1, etm_refcount, etm_clock, events, tasks,
                    nsetups, configured_times, clr_count, binding >>

\* etm.ch(C).evt_id().modify(..): the write
SetupEvtWrite(c) ==
    /\ At(c, "setup", SetupOrder, "evt_id")
    /\ "evt_read" \in ctx[c].done
    /\ evt_id' = WriteBack(evt_id, ctx[c].ch, ctx[c].r, EventId(ctx[c].event))
    /\ Stepped(c, "evt_id", TRUE)
    /\ UNCHANGED << peripheral, channel, guards, task_id, ch_ena_ad0,
                    ch_ena_ad1, etm_refcount, etm_clock, events, tasks,
                    nsetups, configured_times, clr_count, binding >>

\* etm.ch(C).task_id().modify(..): the read
SetupTaskRead(c) ==
    /\ At(c, "setup", SetupOrder, "task_id")
    /\ "task_read" \notin ctx[c].done
    /\ ctx' = [ctx EXCEPT ![c].r = ReadReg(task_id, ctx[c].ch),
                          ![c].done = @ \cup {"task_read"}]
    /\ interleaved' = Overlap(c)
    /\ last' = [op |-> "task_read", ch |-> ctx[c].ch, event |-> ctx[c].event,
                task |-> ctx[c].task]
    /\ UNCHANGED << peripheral, channel, guards, evt_id, task_id, ch_ena_ad0,
                    ch_ena_ad1, etm_refcount, etm_clock, events, tasks,
                    nsetups, configured_times, clr_count, binding >>

\* etm.ch(C).task_id().modify(..): the write
SetupTaskWrite(c) ==
    /\ At(c, "setup", SetupOrder, "task_id")
    /\ "task_read" \in ctx[c].done
    /\ task_id' = WriteBack(task_id, ctx[c].ch, ctx[c].r, TaskId(ctx[c].task))
    /\ Stepped(c, "task_id", TRUE)
    /\ UNCHANGED << peripheral, channel, guards, evt_id, ch_ena_ad0,
                    ch_ena_ad1, etm_refcount, etm_clock, events, tasks,
                    nsetups, configured_times, clr_count, binding >>

\* etm.ch_ena_ad0_set() / ch_ena_ad1_set() .write(..)
SetupEnable(c) ==
    /\ At(c, "setup", SetupOrder, "ch_ena_set")
    /\ LET s == SetupStrobe(ctx[c].ch) IN
         /\ ch_ena_ad0' = IF s.bank = 0 THEN StrobeSet(ch_ena_ad0, s.word)
                                         ELSE ch_ena_ad0
         /\ ch_ena_ad1' = IF s.bank = 1 THEN StrobeSet(ch_ena_ad1, s.word)
                                         ELSE ch_ena_ad1
    /\ Stepped(c, "ch_ena_set", TRUE)
    /\ UNCHANGED << peripheral, channel, guards, evt_id, task_id,
                    etm_refcount, etm_clock, events, tasks, nsetups,
                    configured_times, clr_count, binding >>

\* EtmConfiguredChannel { _event, _task, _guard } is returned.
SetupReturn(c) ==
    /\ ctx[c].op = "setup"
    /\ ctx[c].pc > Len(SetupOrder)
    /\ guards' = guards (+) SetToBag({EtmConfiguredChannel(ctx[c].ch,
                                         ctx[c].event, ctx[c].task)})
    /\ ctx' = [ctx EXCEPT ![c] = Idle]
    /\ interleaved' = Overlap(c)
    /\ last' = [op |-> "setup", ch |-> ctx[c].ch, event |-> ctx[c].event,
                task |-> ctx[c].task]
    /\ UNCHANGED << peripheral, channel, evt_id, task_id, ch_ena_ad0,
                    ch_ena_ad1, etm_refcount, etm_clock, events, tasks,
                    nsetups, configured_times, clr_count, binding >>

\* The guard's scope ends: the guard is moved into its teardown.
DropCall(c, g) ==
    /\ ctx[c].op = "idle"
    /\ BagIn(g, guards)
    /\ guards' = guards (-) SetToBag({g})
    /\ ctx' = [ctx EXCEPT ![c] = [op |-> "drop", pc |-> 1, ch |-> g.ch,
                                  event |-> g._event, task |-> g._task,
                                  r |-> 0, done |-> {}]]
    /\ last' = [op |-> "call_drop", ch |-> g.ch, event |-> g._event,
                task |-> g._task]
    /\ UNCHANGED << peripheral, channel, evt_id, task_id, ch_ena_ad0,
                    ch_ena_ad1, etm_refcount, etm_clock, events, tasks,
                    nsetups, configured_times, clr_count, binding,
                    interleaved >>

\* disable_channel(C): the write to ch_ena_ad0_clr() / ch_ena_ad1_clr()
DropDisable(c) ==
    /\ At(c, "drop", DropOrder, "disable_channel")
    /\ LET s == disable_channel(ctx[c].ch) IN
         /\ ch_ena_ad0' = IF s.bank = 0 THEN StrobeClr(ch_ena_ad0, s.word)
                                         ELSE ch_ena_ad0
         /\ ch_ena_ad1' = IF s.bank = 1 THEN StrobeClr(ch_ena_ad1, s.word)
                                         ELSE ch_ena_ad1
    /\ evt_id' = DropIdRegs(evt_id, ctx[c].ch)
    /\ task_id' = DropIdRegs(task_id, ctx[c].ch)
    /\ clr_count' = [clr_count EXCEPT ![ctx[c].ch] = @ + 1]
    /\ Stepped(c, "disable_channel", TRUE)
    /\ UNCHANGED << peripheral, channel, guards, etm_refcount, etm_clock,
                    events, tasks, nsetups, configured_times, binding >>

\* The field _guard is dropped: the usage token is released.
DropGuardField(c) ==
    /\ At(c, "drop", DropOrder, "_guard")
    /\ etm_refcount' = GuardRelease(etm_refcount)
    /\ etm_clock' = ClockFor(etm_refcount')
    /\ Stepped(c, "_guard", TRUE)
    /\ UNCHANGED << peripheral, channel, guards, evt_id, task_id, ch_ena_ad0,
                    ch_ena_ad1, events, tasks, nsetups, configured_times,
                    clr_count, binding >>

\* The teardown is over: nothing of the guard is left.
DropReturn(c) ==
    /\ ctx[c].op = "drop"
    /\ ctx[c].pc > Len(DropOrder)
    /\ channel' = ReleaseChannel(channel, ctx[c].ch)
    /\ ctx' = [ctx EXCEPT ![c] = Idle]
    /\ interleaved' = Overlap(c)
    /\ last' = [op |-> "drop", ch |-> ctx[c].ch, event |-> ctx[c].event,
                task |-> ctx[c].task]
    /\ UNCHANGED << peripheral, guards, evt_id, task_id, ch_ena_ad0,
                    ch_ena_ad1, etm_refcount, etm_clock, events, tasks,
                    nsetups, configured_times, clr_count, binding >>

\* A statement of the call context c is inside.
Statement(c) ==
    \/ SetupGuard(c)
    \/ SetupEvtRead(c)
    \/ SetupEvtWrite(c)
    \/ SetupTaskRead(c)
    \/ SetupTaskWrite(c)
    \/ SetupEnable(c)
    \/ SetupReturn(c)
    \/ DropDisable(c)
    \/ DropGuardField(c)
    \/ DropReturn(c)

StepNew == EtmNew

\* The channels each context configures: one of each bank, so that calls on
\* two indices of the same bank and of different banks overlap.
StepChannels(c) == IF c = "main" THEN {0, 32} ELSE {31, 49}

\* The Event and Task pairs the contexts bind.
StepPairs == {<< "button_event", "led_task" >>, << "timer_event", "adc_task" >>}

StepSetupCall ==
    \E c \in Contexts : \E C \in StepChannels(c), p \in StepPairs :
        SetupCall(c, C, p[1], p[2])

StepDropCall == \E c \in Contexts : \E g \in BagToSet(guards) : DropCall(c, g)

StepStatement == \E c \in Contexts : Statement(c)

StepNext ==
    \/ StepNew
    \/ StepSetupCall
    \/ StepDropCall
    \/ StepStatement

\* Calls interleaved at the granularity of single register accesses.
StepSpec == Init /\ [][StepNext]_vars

\* A call that was entered runs to its end: the code is straight-line and
\* no statement blocks.
FairStepSpec == StepSpec /\ \A c \in Contexts : WF_vars(Statement(c))

(* ------------------------------ properties ---------------------------- *)

\* Number of live EtmConfiguredChannel guards of index i.
LiveGuards(i) ==
    LET S == {g \in BagToSet(guards) : g.ch = i}
    IN  BagCardinality([g \in S |-> guards[g]])

\* The enable bitmap of the bank that index i belongs to.
BankBitmap(i) == IF i \in 0 .. 31 THEN ch_ena_ad0 ELSE ch_ena_ad1

\* C1: in every reachable state there is at most one live configured-channel
\* guard for every channel index.
C1_AtMostOneGuardPerIndex == \A i \in Indices : LiveGuards(i) <= 1

\* C1 witness: guards of two indices are live at once, one of each bank,
\* and their EtmChannel values are gone.
C1_Witness ==
    /\ LiveGuards(0) = 1 /\ LiveGuards(32) = 1
    /\ channel[0] = 0 /\ channel[32] = 0

\* C2: a live guard exists for index i exactly when channel i's enable bit
\* is set; an unconfigured or released channel has its enable bit clear.
C2_GuardIffEnabled == \A i \in Indices : (LiveGuards(i) >= 1) <=> Enabled(i)

\* C2 witness: a guard of the high bank was just dropped while another guard
\* is still live.
C2_Witness ==
    /\ last.op = "drop" /\ last.ch = 32 /\ ~Enabled(32)
    /\ \E j \in Indices : Enabled(j) /\ LiveGuards(j) = 1

\* C3: whenever channel i's binding is active (its enable bit is set), a live
\* guard of index i exists and the Event and the Task that guard borrows
\* still exist; no live guard refers to a provider that has gone away.
C3_BindingProvidersAlive ==
    /\ \A g \in BagToSet(guards) : g._event \in events /\ g._task \in tasks
    /\ \A i \in Indices :
          Enabled(i) =>
             \E g \in BagToSet(guards) :
                g.ch = i /\ g._event \in events /\ g._task \in tasks

\* C3 witness: an Event has gone away while a binding is still active.
C3_Witness ==
    /\ last.op = "drop_event"
    /\ events # Events
    /\ \E i \in Indices : Enabled(i) /\ LiveGuards(i) = 1

\* C4: right after setup on channel i, bit (i mod 32) of the enable bitmap of
\* bank(i) is 1 (low bank for i in 0..31, high bank from 32); setup on channel
\* 32 sets bit 0 of the high bank, and setup on a channel of the high bank
\* leaves the low bank unchanged.
C4_SetupSetsBankBit ==
    [][ \A i \in Indices :
          (last'.op = "setup" /\ last'.ch = i) =>
             /\ (i % 32) \in BankBitmap(i)'
             /\ (i = 32 => 0 \in ch_ena_ad1')
             /\ (i >= 32 => ch_ena_ad0' = ch_ena_ad0) ]_vars

\* C4 witness: channel 32 was just set up while the low bank has a channel
\* enabled.
C4_Witness ==
    /\ last.op = "setup" /\ last.ch = 32
    /\ 0 \in ch_ena_ad1
    /\ ch_ena_ad0 # {}

\* C5: right after setup on channel i with an Event of id e and a Task of id
\* t, channel i's event-id field is e and its task-id field is t; the field
\* write stores every 8-bit id unchanged, whatever the field held before.
C5_SetupWritesIds ==
    /\ last.op = "setup" =>
          /\ evt_id[last.ch] = EventId(last.event)
          /\ task_id[last.ch] = TaskId(last.task)
    /\ last.op = "setup" =>
          \A id \in 0 .. (2 ^ IdBits - 1) :
             /\ ModifyField(0, id) = id
             /\ ModifyField(evt_id[last.ch], id) = id

\* C5 witness: channel 0 set up with event id 5 and task id 9 shows event-id
\* 5, task-id 9 and low-bank enable bit 0 set.
C5_Witness ==
    /\ last = [op |-> "setup", ch |-> 0, event |-> "button_event",
               task |-> "led_task"]
    /\ evt_id[0] = 5 /\ task_id[0] = 9 /\ 0 \in ch_ena_ad0

\* C6: dropping the guard of index i clears channel i's enable bit and leaves
\* the enable bit of every other index, in both banks, unchanged.
C6_DropClearsOnlyItsBit ==
    [][ \A i \in Indices :
          (last'.op = "drop" /\ last'.ch = i) =>
             /\ ~Enabled(i)'
             /\ \A j \in Indices \ {i} : Enabled(j)' = Enabled(j) ]_vars

\* C6 witness: the guard of channel 32 was just dropped while channels of
\* both banks are still enabled.
C6_Witness ==
    /\ last.op = "drop" /\ last.ch = 32
    /\ Enabled(49) /\ Enabled(0)

\* C7: setup on channel i changes only channel i: the event-id register, the
\* task-id register and the enable bit of every other index are unchanged,
\* and the strobe word carries a 1 in the position of i alone.
C7_SetupFrame ==
    [][ \A i \in Indices :
          (last'.op = "setup" /\ last'.ch = i) =>
             /\ SetupStrobe(i).word = {i % 32}
             /\ \A j \in Indices \ {i} :
                   /\ evt_id'[j] = evt_id[j]
                   /\ task_id'[j] = task_id[j]
                   /\ Enabled(j)' = Enabled(j) ]_vars

\* C7 witness: a channel was just set up while another channel is enabled
\* with ids written and a third one was released with its ids still written.
C7_Witness ==
    /\ last.op = "setup"
    /\ \E j, k \in Indices \ {last.ch} :
          /\ j # k
          /\ Enabled(j) /\ evt_id[j] # 0 /\ task_id[j] # 0
          /\ ~Enabled(k) /\ evt_id[k] # 0 /\ task_id[k] # 0

\* C8: Etm::new yields exactly one unconfigured channel for every index in
\* 0..49, none duplicated and none missing, writes no register and acquires
\* no usage token.
C8_NewYieldsOneChannelPerIndex ==
    [][ last'.op = "new" =>
          /\ \A i \in Indices : channel'[i] = 1
          /\ Len(ChannelNums) = NumChannels
          /\ \A k \in DOMAIN ChannelNums : ChannelNums[k] \in Indices
          /\ guards' = EmptyBag
          /\ UNCHANGED << evt_id, task_id, ch_ena_ad0, ch_ena_ad1,
                          etm_refcount, etm_clock >> ]_vars

\* C8 witness: the state right after Etm::new.
C8_Witness == last.op = "new" /\ peripheral = 0 /\ channel[49] = 1

\* C9: every index is configured at most once, its enable bit is cleared only
\* by the teardown of its guard, and once its guard is torn down the index
\* has no EtmChannel value and no guard again and its enable bit stays clear.
C9_LifecycleOnce ==
    [][ \A i \in Indices :
          /\ configured_times'[i] <= 1
          /\ (Enabled(i) /\ ~Enabled(i)') =>
                (last'.op = "drop" /\ last'.ch = i)
          /\ (LiveGuards(i) >= 1 /\ LiveGuards(i)' = 0) =>
                (last'.op = "drop" /\ last'.ch = i)
          /\ (configured_times[i] >= 1 /\ LiveGuards(i) = 0) =>
                /\ channel'[i] = 0
                /\ LiveGuards(i)' = 0
                /\ ~Enabled(i)' ]_vars

\* C9 witness: a channel was released and another channel was set up after
\* that.
C9_Witness ==
    /\ last.op = "setup"
    /\ \E i \in Indices :
          /\ configured_times[i] = 1
          /\ LiveGuards(i) = 0 /\ channel[i] = 0 /\ ~Enabled(i)

\* C10: between operations the number of ETM usage tokens held equals the
\* number of live guards, the peripheral is clocked while at least one guard
\* is live, and the count is zero when all guards are released.
C10_TokensEqualGuards ==
    /\ etm_refcount = BagCardinality(guards)
    /\ (BagCardinality(guards) >= 1 => etm_clock)
    /\ (guards = EmptyBag => etm_refcount = 0)

\* C10 witness: two guards were live and the last of them was just dropped,
\* so the count is back to zero.
C10_Witness ==
    /\ last.op = "drop"
    /\ nsetups >= 2
    /\ guards = EmptyBag
    /\ etm_refcount = 0

(* ----------------- properties of the statement order ------------------ *)

\* No context is inside a call.
Quiescent == \A c \in Contexts : ctx[c].op = "idle"

\* The register state after setup(i, event, task) runs from the current one.
AfterSetup(i, event, task) ==
    LET s == SetupStrobe(i) IN
    [evt  |-> WriteEvtId(evt_id, i, event, task),
     task |-> WriteTaskId(task_id, i, event, task),
     ad0  |-> IF s.bank = 0 THEN StrobeSet(ch_ena_ad0, s.word) ELSE ch_ena_ad0,
     ad1  |-> IF s.bank = 1 THEN StrobeSet(ch_ena_ad1, s.word) ELSE ch_ena_ad1]

\* The register state after the teardown of index i runs from state h.
AfterRelease(h, i) ==
    LET s == disable_channel(i) IN
    [evt  |-> DropIdRegs(h.evt, i),
     task |-> DropIdRegs(h.task, i),
     ad0  |-> IF s.bank = 0 THEN StrobeClr(h.ad0, s.word) ELSE h.ad0,
     ad1  |-> IF s.bank = 1 THEN StrobeClr(h.ad1, s.word) ELSE h.ad1]

\* The current register state.
Registers ==
    [evt |-> evt_id, task |-> task_id, ad0 |-> ch_ena_ad0, ad1 |-> ch_ena_ad1]

\* Index i was set up and its guard is completely torn down.
TornDown(i) ==
    /\ configured_times[i] >= 1
    /\ LiveGuards(i) = 0
    /\ \A c \in Contexts : ~(ctx[c].op # "idle" /\ ctx[c].ch = i)

\* C11 (safety part): at most one clear-strobe write is made per index, none
\* without a setup of that index before it, and a torn-down guard has made
\* exactly one.
C11_OneClearPerSetup ==
    \A i \in Indices :
       /\ clr_count[i] <= 1
       /\ clr_count[i] <= configured_times[i]
       /\ (clr_count[i] = 1 =>
             \A c \in Contexts : ~(ctx[c].op = "setup" /\ ctx[c].ch = i))
       /\ (TornDown(i) => clr_count[i] = 1 /\ ~Enabled(i))

\* C11: a configured channel is disabled exactly once: the teardown of a
\* guard issues exactly one clear-strobe write for its index, never without a
\* preceding setup, and a guard whose scope ends is eventually torn down with
\* its enable bit cleared.
C11_DisabledExactlyOnce ==
    /\ []C11_OneClearPerSetup
    /\ \A i \in SetupChannels :
          (\E c \in Contexts : ctx[c].op = "drop" /\ ctx[c].ch = i)
             ~> (TornDown(i) /\ clr_count[i] = 1 /\ ~Enabled(i))

\* C11 witness: a guard was torn down, by calls that overlapped, and its one
\* clear-strobe write is made.
C11_Witness ==
    /\ last.op = "drop"
    /\ interleaved
    /\ TornDown(last.ch) /\ clr_count[last.ch] = 1 /\ ~Enabled(last.ch)

\* C12 as stated: setup writes the event id, then the task id, then sets the
\* enable bit, and acquires the usage token last.
C12_TokenAcquiredLast ==
    \A c \in Contexts :
       ctx[c].op = "setup" =>
          /\ ("task_id" \in ctx[c].done => "evt_id" \in ctx[c].done)
          /\ ("ch_ena_set" \in ctx[c].done => "task_id" \in ctx[c].done)
          /\ ("guard" \in ctx[c].done => "ch_ena_set" \in ctx[c].done)

\* C12 (amended): setup acquires the usage token first, then writes the
\* event id, then the task id, and sets the enable bit last; each effect is
\* in the hardware once its statement is done.
C12_TokenAcquiredFirst ==
    \A c \in Contexts :
       ctx[c].op = "setup" =>
          /\ ("evt_read" \in ctx[c].done => "guard" \in ctx[c].done)
          /\ ("task_read" \in ctx[c].done => "evt_id" \in ctx[c].done)
          /\ ("ch_ena_set" \in ctx[c].done => "task_id" \in ctx[c].done)
          /\ ("guard" \in ctx[c].done => etm_refcount >= 1)
          /\ ("evt_id" \in ctx[c].done =>
                evt_id[ctx[c].ch] = EventId(ctx[c].event))
          /\ ("task_id" \in ctx[c].done =>
                task_id[ctx[c].ch] = TaskId(ctx[c].task))
          /\ ("ch_ena_set" \in ctx[c].done <=> Enabled(ctx[c].ch))
          /\ (ctx[c].pc > Len(SetupOrder) =>
                {"guard", "evt_id", "task_id", "ch_ena_set"} \subseteq ctx[c].done)

\* C12 witness: a setup holds its usage token and has written no register
\* yet.
C12_Witness ==
    \E c \in Contexts :
       /\ ctx[c].op = "setup"
       /\ ctx[c].done = {"guard"}
       /\ etm_refcount >= 1
       /\ evt_id[ctx[c].ch] = 0 /\ ~Enabled(ctx[c].ch)

\* C13: the teardown clears the enable bit through the clear strobe of the
\* bank and bit that setup used and releases the usage token only after
\* that: the enable bit is clear at the moment the token is released.
C13_ClearBeforeRelease ==
    [][ \A c \in Contexts :
          (ctx[c].op = "drop" /\ "_guard" \notin ctx[c].done
                              /\ "_guard" \in ctx'[c].done) =>
             /\ "disable_channel" \in ctx[c].done
             /\ ~Enabled(ctx[c].ch)
             /\ disable_channel(ctx[c].ch) = SetupStrobe(ctx[c].ch) ]_vars

\* C13 witness: the token of the guard of channel 32 was just released, with
\* the channel disabled.
C13_Witness ==
    /\ last.op = "_guard" /\ last.ch = 32
    /\ ~Enabled(32) /\ clr_count[32] = 1

\* C14: the teardown of a guard leaves the event-id and task-id fields of
\* every channel unchanged; the released channel still holds the ids its
\* setup wrote.
C14_DropKeepsIds ==
    [][ \A i \in Indices :
          (last'.op = "drop" /\ last'.ch = i) =>
             /\ evt_id' = evt_id
             /\ task_id' = task_id
             /\ evt_id'[i] = EventId(last'.event)
             /\ task_id'[i] = TaskId(last'.task) ]_vars

\* C14 witness: a channel was just released and its id fields are still
\* written.
C14_Witness ==
    /\ last.op = "drop"
    /\ ~Enabled(last.ch)
    /\ evt_id[last.ch] = EventId(last.event) /\ evt_id[last.ch] # 0
    /\ task_id[last.ch] = TaskId(last.task) /\ task_id[last.ch] # 0

\* Register state h has the current enable bitmaps, and the current id
\* registers of every index but i.
RestoredExcept(h, i) ==
    /\ h.ad0 = ch_ena_ad0
    /\ h.ad1 = ch_ena_ad1
    /\ [h.evt EXCEPT ![i] = evt_id[i]] = evt_id
    /\ [h.task EXCEPT ![i] = task_id[i]] = task_id

\* C15: for every index i, setup followed by release of channel i gives back
\* both enable bitmaps as they were and changes no other channel's id
\* registers; setup and disable_channel address the same bank and bit,
\* (low, i) for i < 32 and (high, i - 32) otherwise.
C15_SetupReleaseRoundTrip ==
    \A i \in Indices :
       /\ SetupStrobe(i) = disable_channel(i)
       /\ SetupStrobe(i) = IF i < 32 THEN [bank |-> 0, word |-> {i}]
                                     ELSE [bank |-> 1, word |-> {i - 32}]
       /\ ~Enabled(i) =>
             RestoredExcept(
                AfterRelease(AfterSetup(i, "timer_event", "adc_task"), i), i)

\* C15 witness: channel 49 was set up and released while channels of both
\* banks are enabled.
C15_Witness ==
    /\ last.op = "drop" /\ last.ch = 49
    /\ configured_times[49] = 1 /\ ~Enabled(49)
    /\ ch_ena_ad0 # {} /\ ch_ena_ad1 # {}

\* C16: the clear strobe of disable_channel(i), applied to an index whose
\* enable bit is already clear, changes no enable bit and no id register;
\* applying it twice gives what applying it once gives.
C16_DoubleReleaseNoOp ==
    \A i \in Indices :
       /\ ~Enabled(i) => AfterRelease(Registers, i) = Registers
       /\ AfterRelease(AfterRelease(Registers, i), i) =
             AfterRelease(Registers, i)

\* C16 witness: a channel was released, so a second release would find its
\* bit clear, while other channels are enabled.
C16_Witness ==
    /\ last.op = "drop"
    /\ clr_count[last.ch] = 1 /\ ~Enabled(last.ch)
    /\ \E j \in Indices : Enabled(j)

\* C17: when calls on different indices are interleaved register access by
\* register access, no update is lost: once all calls are finished, the
\* enable bit of every index is set exactly if its guard is live and its id
\* fields hold what its setup was given, as after the same calls run one
\* after the other.
C17_NoLostUpdate ==
    Quiescent =>
       \A i \in Indices :
          /\ Enabled(i) <=> LiveGuards(i) = 1
          /\ LiveGuards(i) = configured_times[i] - clr_count[i]
          /\ binding[i] = << >> => (evt_id[i] = 0 /\ task_id[i] = 0)
          /\ binding[i] # << >> =>
                /\ evt_id[i] = EventId(binding[i][1])
                /\ task_id[i] = TaskId(binding[i][2])

\* C17 witness: all calls are finished, calls on two indices overlapped, one
\* index is enabled and the other one was released.
C17_Witness ==
    /\ Quiescent
    /\ interleaved
    /\ \E i, j \in Indices :
          /\ i # j
          /\ Enabled(i) /\ evt_id[i] # 0
          /\ clr_count[j] = 1 /\ evt_id[j] # 0

\* C18: whenever channel i's enable bit is set, its event-id and task-id
\* fields hold the ids given to the latest setup of i; setup has written both
\* id fields when it sets the enable bit.
C18_EnabledImpliesIdsWritten ==
    /\ \A i \in Indices :
          Enabled(i) =>
             /\ binding[i] # << >>
             /\ evt_id[i] = EventId(binding[i][1])
             /\ task_id[i] = TaskId(binding[i][2])
    /\ \A c \in Contexts :
          (ctx[c].op = "setup" /\ "ch_ena_set" \in ctx[c].done) =>
             {"evt_id", "task_id"} \subseteq ctx[c].done

\* C18 witness: setup has just set the enable bit, with both ids written.
C18_Witness ==
    /\ last.op = "ch_ena_set"
    /\ Enabled(last.ch)
    /\ evt_id[last.ch] = EventId(last.event)
    /\ task_id[last.ch] = TaskId(last.task)

\* The statements that access an ETM register.
RegisterAccesses ==
    {"evt_read", "evt_id", "task_read", "task_id", "ch_ena_set",
     "disable_channel"}

\* C19: every ETM register access of setup and of the guard's teardown is
\* made while at least one ETM usage token is held and the peripheral is
\* clocked.
C19_AccessOnlyWithToken ==
    [][ (last'.op \in RegisterAccesses /\ last' # last) =>
          /\ etm_refcount >= 1 /\ etm_clock
          /\ etm_refcount' >= 1 /\ etm_clock' ]_vars

\* C19 witness: a teardown has just written the clear strobe while the only
\* token held is its own.
C19_Witness ==
    /\ last.op = "disable_channel"
    /\ etm_refcount = 1 /\ etm_clock

=============================================================================
